---- MODULE Spec2Model ----
(***************************************************************************)
(* ConvMixin.conv (tools/onnx_tf/handlers/backend/conv_mixin.py): the      *)
(* translation of one ONNX Conv / ConvTranspose node into TensorFlow graph *)
(* construction calls.  One behaviour is one call of conv: Init draws the  *)
(* node, the input tensors and the device capability, the actions are the  *)
(* consecutive blocks of the method, and `ops` is the list of backend      *)
(* calls made so far (a call that the backend rejects is the last one).    *)
(***************************************************************************)
EXTENDS Integers, Sequences, FiniteSets, TLC

VARIABLES node, transpose, support_cuda, input_dict,
          pc, x, weights, kernel_shape, strides, dilations, pads, pad_mode,
          group, xs, weight_groups, convolved, output, ops, raised

vars == <<node, transpose, support_cuda, input_dict,
          pc, x, weights, kernel_shape, strides, dilations, pads, pad_mode,
          group, xs, weight_groups, convolved, output, ops, raised>>

inputs == <<node, transpose, support_cuda, input_dict>>

\* Largest group count and largest spatial rank of the drawn nodes.
MaxGroup == 2
MaxSpatial == 4

\* A statically unknown dimension (as_list() gives None), and the scalar
\* tf.shape(x)[batch_idx] that stands for it at run time.
None == -1
RuntimeBatch == -2

PAD_TF_INCOMPATIBLE == "PAD_TF_INCOMPATIBLE"

\* onnx_tf.common.exception: calling OP_UNSUPPORTED_EXCEPT raises the
\* unsupported-operator condition.
OP_UNSUPPORTED_EXCEPT == "OP_UNSUPPORTED"

----------------------------------------------------------------------------
\* Python list helpers (indices are 0-based as in the source).

At(s, i) == s[i + 1]
Neg(s, j) == s[Len(s) - j + 1]
find(fmt, d) == IF \E i \in 1..Len(fmt) : fmt[i] = d
                THEN (CHOOSE i \in 1..Len(fmt) : fmt[i] = d) - 1
                ELSE -1
insert(s, i, v) ==
  LET j == IF i > Len(s) THEN Len(s) ELSE i
  IN  SubSeq(s, 1, j) \o <<v>> \o SubSeq(s, j + 1, Len(s))
From(s, i) == SubSeq(s, i + 1, Len(s))
LastTwo(s) == IF Len(s) <= 2 THEN s ELSE SubSeq(s, Len(s) - 1, Len(s))
Ones(n) == [i \in 1..n |-> 1]
Zeros(n) == [i \in 1..n |-> 0]
Get(attrs, name, default) == IF name \in DOMAIN attrs THEN attrs[name] ELSE default

----------------------------------------------------------------------------
\* onnx_tf.common: layouts.  The storage layout is channel-first (conv splits
\* the untransposed input along axis 1 on a CUDA device and pads its axes 2
\* and 3); the compute layout is the same on a CUDA device and channel-last
\* otherwise (conv then splits and concatenates along the last axis).

sp_dim_names == <<"S", "T", "U", "D", "H", "W">>
sp_dims(n) == SubSeq(sp_dim_names, Len(sp_dim_names) - n + 1, Len(sp_dim_names))

get_data_format(x_rank, cuda) ==
  [storage |-> <<"N", "C">> \o sp_dims(x_rank - 2),
   compute |-> IF cuda THEN <<"N", "C">> \o sp_dims(x_rank - 2)
               ELSE <<"N">> \o sp_dims(x_rank - 2) \o <<"C">>]

get_perm_from_formats(from, to) == [i \in 1..Len(to) |-> find(from, to[i])]

----------------------------------------------------------------------------
\* Tensors and the backend primitives: a tensor is its axis labels, its static
\* shape and the index of the group slice it belongs to (0: none).

Tensor(fmt, shape, id) == [fmt |-> fmt, shape |-> shape, id |-> id]
NoTensor == Tensor(<<>>, <<>>, 0)

\* A backend call: the primitive, the tensor it is applied to, its arguments
\* (a pad records the layout of the tensor it pads in b), the padding mode and
\* the group slices of its input and of its filter.
Call(op, on, a, b, m, k, wk) ==
  [op |-> op, on |-> on, a |-> a, b |-> b, m |-> m, k |-> k, wk |-> wk]

AddDim(d, e) == IF d = None THEN None ELSE d + e

tf_transpose(t, perm) ==
  Tensor([i \in 1..Len(perm) |-> At(t.fmt, perm[i])],
         [i \in 1..Len(perm) |-> At(t.shape, perm[i])], t.id)

\* tf.pad accepts a paddings list with one row per axis of the tensor.
tf_pad_ok(t, paddings) == Len(paddings) = Len(t.shape)
tf_pad(t, paddings) ==
  Tensor(t.fmt,
         [i \in 1..Len(t.shape) |-> AddDim(t.shape[i], paddings[i][1] + paddings[i][2])],
         t.id)

\* tf.split(t, num, axis): axis is 0-based, or -1 for the last axis.
SplitAxis(t, axis) == IF axis < 0 THEN Len(t.shape) + axis + 1 ELSE axis + 1
tf_split(t, num, axis) ==
  [k \in 1..num |->
     Tensor(t.fmt,
            [i \in 1..Len(t.shape) |->
               IF i = SplitAxis(t, axis) THEN t.shape[i] \div num ELSE t.shape[i]],
            k)]

\* tf.nn.convolution: the output size of one spatial axis.
conv_out_dim(in, k, s, d, mode) ==
  IF mode = "SAME" THEN (in + s - 1) \div s
  ELSE (in - d * (k - 1) - 1) \div s + 1

\* tf.nn.convolution reads the input by data_format; the input depth must be
\* the filter's input depth (filter layout: spatial..., in, out).
tf_conv_ok(t, w, data_format) ==
  /\ Len(t.shape) = Len(data_format)
  /\ At(t.shape, find(data_format, "C")) = Neg(w.shape, 2)
tf_conv(t, w, mode, st, dil, data_format) ==
  LET sp == SelectSeq(data_format, LAMBDA d : d \notin {"N", "C"})
  IN  Tensor(data_format,
             [i \in 1..Len(data_format) |->
                IF data_format[i] = "N" THEN t.shape[i]
                ELSE IF data_format[i] = "C" THEN Neg(w.shape, 1)
                ELSE LET j == find(sp, data_format[i]) + 1
                     IN  conv_out_dim(t.shape[i], w.shape[j], st[j], dil[j], mode)],
             t.id)

----------------------------------------------------------------------------
\* PadMixin.get_padding_as_op: ONNX pads (begins, then ends) as one tf.pad on
\* a channel-first tensor.
padding_of_pads(p) ==
  LET num_dim == Len(p) \div 2
  IN  <<<<0, 0>>, <<0, 0>>>> \o [i \in 1..num_dim |-> <<p[i], p[num_dim + i]>>]

----------------------------------------------------------------------------
\* The nodes and tensors a call is drawn from.

EmptyAttrs == [a \in {} |-> 0]
Attr(name, present, val) == IF present THEN name :> val ELSE EmptyAttrs

AutoPads == {"NOTSET", "SAME_UPPER", "VALID", "SAME_LOWER", "SAME"}
InChannels == {3, 4}

Spatial(n) == [i \in 1..n |-> i + 2]
Kernel(n) == [i \in 1..n |-> i]
Bump(n, j, v) == [i \in 1..n |-> IF i = j THEN v + 1 ELSE v]
PadsChoice(n, p) == IF p = 1 THEN Bump(2 * n, 1, 0) ELSE Bump(2 * n, 2 * n, 0)

NodeAttrs(n, g, ka, ap, sj, dil, p, osh, opad) ==
  Attr("kernel_shape", ka # "absent",
       IF ka = "match" THEN Kernel(n) ELSE [i \in 1..n |-> i + 1])
  @@ Attr("auto_pad", ap # "absent", ap)
  @@ Attr("strides", sj # 0, Bump(n, sj, 1))
  @@ Attr("dilations", dil, Bump(n, 1, 1))
  @@ Attr("pads", p # 0, PadsChoice(n, p))
  @@ Attr("group", g # 1, g)
  @@ Attr("output_shape", osh, [i \in 1..n |-> i + 4])
  @@ Attr("output_padding", opad, Bump(n, n, 0))

\* ONNX weights: Conv (M, C/group, k...), ConvTranspose (C, M/group, k...).
InWeights(tr, n, g, c) ==
  IF tr THEN Tensor(<<"C", "M">> \o sp_dims(n), <<c * g, 3>> \o Kernel(n), 0)
  ELSE Tensor(<<"M", "C">> \o sp_dims(n), <<3 * g, c>> \o Kernel(n), 0)

Init ==
  /\ transpose \in BOOLEAN
  /\ support_cuda \in BOOLEAN
  /\ \E n \in 1..MaxSpatial, g \in 1..MaxGroup, c \in InChannels,
        batch \in {None, 2}, bias \in BOOLEAN,
        ka \in {"absent", "match", "mismatch"}, ap \in AutoPads \cup {"absent"},
        dil \in BOOLEAN, p \in 0..2, osh \in BOOLEAN, opad \in BOOLEAN :
       \E sj \in {0, 1, n} :
         /\ ~transpose => ~osh /\ ~opad
         /\ node = [inputs |-> IF bias THEN 3 ELSE 2,
                    attrs |-> NodeAttrs(n, g, ka, ap, sj, dil, p, osh, opad)]
         /\ input_dict =
              [x |-> Tensor(get_data_format(n + 2, support_cuda).storage,
                            <<batch, c * g>> \o Spatial(n), 0),
               w |-> InWeights(transpose, n, g, c),
               b |-> Tensor(<<"M">>, <<3 * g>>, 0)]
  /\ pc = "start"
  /\ x = NoTensor
  /\ weights = NoTensor
  /\ kernel_shape = <<>>
  /\ strides = <<>>
  /\ dilations = <<>>
  /\ pads = <<>>
  /\ pad_mode = ""
  /\ group = 0
  /\ xs = <<>>
  /\ weight_groups = <<>>
  /\ convolved = <<>>
  /\ output = NoTensor
  /\ ops = <<>>
  /\ raised = ""

----------------------------------------------------------------------------
\* Locals fixed at the top of conv (lines 28-45).

x_shape == input_dict.x.shape
x_rank == Len(x_shape)
spatial_size == x_rank - 2
storage_format == get_data_format(x_rank, support_cuda).storage
compute_format == get_data_format(x_rank, support_cuda).compute
compute_c_idx == find(compute_format, "C")
spatial_format == SelectSeq(compute_format, LAMBDA d : d \notin {"N", "C"})
in_weights == input_dict.w
perm == [i \in 1..(Len(in_weights.shape) - 2) |-> i + 1] \o <<1, 0>>

Raise(exc) == /\ raised' = exc
              /\ pc' = "raised"

\* Lines 47-56: kernel_shape, cross-checked against the weight tensor.
kernel_shape_ok_lenonly(attrs, w) ==
  "kernel_shape" \in DOMAIN attrs => Len(From(w.shape, 2)) = Len(attrs["kernel_shape"])
kernel_shape_ok(attrs, w) ==
  "kernel_shape" \in DOMAIN attrs => From(w.shape, 2) = attrs["kernel_shape"]

ResolveKernelShape ==
  /\ pc = "start"
  /\ x' = input_dict.x
  /\ IF kernel_shape_ok(node.attrs, in_weights)
       THEN /\ kernel_shape' = Get(node.attrs, "kernel_shape", From(in_weights.shape, 2))
            /\ pc' = "weights"
            /\ UNCHANGED raised
       ELSE /\ Raise("AssertionError")
            /\ UNCHANGED kernel_shape
  /\ UNCHANGED <<inputs, weights, strides, dilations, pads, pad_mode, group, xs,
                 weight_groups, convolved, output, ops>>

\* Lines 58-62: the weight permutation and the attribute defaults.
TransposeWeights ==
  /\ pc = "weights"
  /\ weights' = tf_transpose(in_weights, perm)
  /\ ops' = Append(ops, Call("transpose", "weights", perm, <<>>, "", 0, 0))
  /\ dilations' = Get(node.attrs, "dilations", Ones(spatial_size))
  /\ strides' = Get(node.attrs, "strides", Ones(spatial_size))
  /\ pads' = Get(node.attrs, "pads", Zeros(2 * spatial_size))
  /\ pc' = "pad_mode"
  /\ UNCHANGED <<inputs, x, kernel_shape, pad_mode, group, xs, weight_groups,
                 convolved, output, raised>>

\* Lines 64-84: auto_pad to the backend's padding mode ("ValueError": the
\* attribute is none of the four values).
derive_pad_mode_lower_as_same(attrs, tr) ==
  IF "auto_pad" \notin DOMAIN attrs \/ attrs["auto_pad"] = "NOTSET"
    THEN (IF ~tr THEN "VALID" ELSE "NOTSET")
  ELSE IF attrs["auto_pad"] = "SAME_UPPER" THEN "SAME"
  ELSE IF attrs["auto_pad"] = "VALID" THEN "VALID"
  ELSE IF attrs["auto_pad"] = "SAME_LOWER" THEN "SAME"
  ELSE "ValueError"
derive_pad_mode(attrs, tr) ==
  IF "auto_pad" \notin DOMAIN attrs \/ attrs["auto_pad"] = "NOTSET"
    THEN (IF ~tr THEN "VALID" ELSE "NOTSET")
  ELSE IF attrs["auto_pad"] = "SAME_UPPER" THEN "SAME"
  ELSE IF attrs["auto_pad"] = "VALID" THEN "VALID"
  ELSE IF attrs["auto_pad"] = "SAME_LOWER"
    THEN (IF tr THEN PAD_TF_INCOMPATIBLE ELSE "SAME")
  ELSE "ValueError"

\* Lines 64-93.
DerivePadMode ==
  /\ pc = "pad_mode"
  /\ LET mode == derive_pad_mode(node.attrs, transpose)
         explicit == /\ "auto_pad" \notin DOMAIN node.attrs \/ node.attrs["auto_pad"] = "NOTSET"
                     /\ ~transpose
                     /\ pads # Zeros(2 * spatial_size)
     IN  /\ IF explicit
              THEN /\ x' = tf_pad(x, padding_of_pads(pads))
                   /\ ops' = Append(ops, Call("pad", "x", padding_of_pads(pads), x.fmt, "", 0, 0))
              ELSE UNCHANGED <<x, ops>>
         /\ IF mode = "ValueError"
              THEN /\ Raise("ValueError")
                   /\ UNCHANGED <<pad_mode, group>>
            ELSE IF mode = PAD_TF_INCOMPATIBLE
              THEN /\ Raise(OP_UNSUPPORTED_EXCEPT)
                   /\ pad_mode' = mode
                   /\ UNCHANGED group
            ELSE /\ pad_mode' = mode
                 /\ group' = Get(node.attrs, "group", 1)
                 /\ pc' = "branch"
                 /\ UNCHANGED raised
  /\ UNCHANGED <<inputs, weights, kernel_shape, strides, dilations, pads, xs,
                 weight_groups, convolved, output>>

\* Line 95: the single-call path.
UsesFastPath_any_kind(g, tr) == g = 1
UsesFastPath(g, tr) == g = 1 /\ ~tr

\* Lines 96 and 278: the condition of the SAME_LOWER emulation.
same_lower_strided(attrs, st) ==
  /\ "auto_pad" \in DOMAIN attrs
  /\ attrs["auto_pad"] = "SAME_LOWER"
  /\ st # <<1, 1>>

\* Lines 97-101 and 279-283: the paddings of the emulation, by device.
same_lower_paddings(cuda) ==
  IF cuda THEN <<<<0, 0>>, <<0, 0>>, <<1, 1>>, <<1, 1>>>>
  ELSE <<<<0, 0>>, <<1, 1>>, <<1, 1>>, <<0, 0>>>>

\* Lines 96-103.
FastPathPad ==
  /\ pc = "branch"
  /\ UsesFastPath(group, transpose)
  /\ IF same_lower_strided(node.attrs, strides)
       THEN LET paddings == same_lower_paddings(support_cuda)
                padded == tf_pad(x, paddings)
                to_compute == get_perm_from_formats(storage_format, compute_format)
            IN  IF ~tf_pad_ok(x, paddings)
                  THEN /\ ops' = Append(ops, Call("pad", "x", paddings, x.fmt, "", 0, 0))
                       /\ Raise("BackendError")
                       /\ UNCHANGED <<x, pad_mode>>
                ELSE /\ IF support_cuda
                          THEN /\ x' = padded
                               /\ ops' = Append(ops, Call("pad", "x", paddings, x.fmt, "", 0, 0))
                          ELSE /\ x' = tf_transpose(padded, to_compute)
                               /\ ops' = ops \o <<Call("pad", "x", paddings, x.fmt, "", 0, 0),
                                                  Call("transpose", "x", to_compute, <<>>, "", 0, 0)>>
                     /\ pad_mode' = "VALID"
                     /\ pc' = "fast_conv"
                     /\ UNCHANGED raised
       ELSE /\ pc' = "fast_conv"
            /\ UNCHANGED <<x, pad_mode, ops, raised>>
  /\ UNCHANGED <<inputs, weights, kernel_shape, strides, dilations, pads, group, xs,
                 weight_groups, convolved, output>>

\* Lines 107-108.
FastPathConv ==
  /\ pc = "fast_conv"
  /\ ops' = Append(ops, Call("convolution", "x", strides, dilations, pad_mode, x.id, weights.id))
  /\ IF tf_conv_ok(x, weights, compute_format)
       THEN /\ output' = tf_conv(x, weights, pad_mode, strides, dilations, compute_format)
            /\ pc' = "fast_out"
            /\ UNCHANGED raised
       ELSE /\ Raise("BackendError")
            /\ UNCHANGED output
  /\ UNCHANGED <<inputs, x, weights, kernel_shape, strides, dilations, pads, pad_mode,
                 group, xs, weight_groups, convolved>>

\* Lines 110-124 and 297-317 after the concat: bias add and the way back to
\* the storage layout.
finish_calls(has_bias, cuda) ==
  (IF has_bias
     THEN <<Call("broadcast", "bias", <<compute_c_idx>>, <<>>, "", 0, 0),
            Call("add", "output", <<>>, <<>>, "", 0, 0)>>
     ELSE <<>>)
  \o (IF cuda THEN <<>>
      ELSE <<Call("transpose", "output",
                  get_perm_from_formats(compute_format, storage_format), <<>>, "", 0, 0)>>)
finish_tensor(t, cuda) ==
  IF cuda THEN t
  ELSE tf_transpose(t, get_perm_from_formats(compute_format, storage_format))

\* Lines 110-124.
FastPathReturn ==
  /\ pc = "fast_out"
  /\ ops' = ops \o finish_calls(node.inputs # 2, support_cuda)
  /\ output' = finish_tensor(output, support_cuda)
  /\ pc' = "returned"
  /\ UNCHANGED <<inputs, x, weights, kernel_shape, strides, dilations, pads, pad_mode,
                 group, xs, weight_groups, convolved, raised>>

\* Lines 126-133: the group slices of the weights and of the input.
Partition ==
  /\ pc = "branch"
  /\ ~UsesFastPath(group, transpose)
  /\ weight_groups' = tf_split(weights, group, -1)
  /\ LET to_compute == get_perm_from_formats(storage_format, compute_format)
         xc == IF support_cuda THEN x ELSE tf_transpose(x, to_compute)
         axis == IF support_cuda THEN 1 ELSE -1
     IN  /\ x' = xc
         /\ xs' = tf_split(xc, group, axis)
         /\ ops' = ops
                   \o <<Call("split", "weights", <<group, -1>>, <<>>, "", 0, 0)>>
                   \o (IF support_cuda THEN <<>>
                       ELSE <<Call("transpose", "x", to_compute, <<>>, "", 0, 0)>>)
                   \o <<Call("split", "x", <<group, axis>>, <<>>, "", 0, 0)>>
  /\ convolved' = <<>>
  /\ pc' = IF transpose THEN "dilation" ELSE "grouped_pad"
  /\ UNCHANGED <<inputs, weights, kernel_shape, strides, dilations, pads, pad_mode,
                 group, output, raised>>

\* Lines 277-284.
GroupedPad ==
  /\ pc = "grouped_pad"
  /\ IF same_lower_strided(node.attrs, strides)
       THEN LET paddings == same_lower_paddings(support_cuda)
                pad_call(k) == Call("pad", "x", paddings, xs[k].fmt, "", k, 0)
            IN  IF ~tf_pad_ok(xs[1], paddings)
                  THEN /\ ops' = Append(ops, pad_call(1))
                       /\ Raise("BackendError")
                       /\ UNCHANGED <<xs, pad_mode>>
                ELSE /\ xs' = [k \in 1..Len(xs) |-> tf_pad(xs[k], paddings)]
                     /\ ops' = ops \o [k \in 1..Len(xs) |-> pad_call(k)]
                     /\ pad_mode' = "VALID"
                     /\ pc' = "grouped_conv"
                     /\ UNCHANGED raised
       ELSE /\ pc' = "grouped_conv"
            /\ UNCHANGED <<xs, pad_mode, ops, raised>>
  /\ UNCHANGED <<inputs, x, weights, kernel_shape, strides, dilations, pads, group,
                 weight_groups, convolved, output>>

\* zip(xs, weight_groups) of lines 140 and 294.
Zip(a, b) == [k \in 1..(IF Len(a) < Len(b) THEN Len(a) ELSE Len(b)) |-> <<a[k], b[k]>>]

\* Lines 286-295.
GroupedConv ==
  /\ pc = "grouped_conv"
  /\ LET pairs == Zip(xs, weight_groups)
         conv_call(k) == Call("convolution", "x", strides, dilations, pad_mode,
                              pairs[k][1].id, pairs[k][2].id)
         bad == {k \in 1..Len(pairs) : ~tf_conv_ok(pairs[k][1], pairs[k][2], compute_format)}
     IN  IF bad = {}
           THEN /\ convolved' = [k \in 1..Len(pairs) |->
                                   tf_conv(pairs[k][1], pairs[k][2], pad_mode, strides,
                                           dilations, compute_format)]
                /\ ops' = ops \o [k \in 1..Len(pairs) |-> conv_call(k)]
                /\ pc' = "reassemble"
                /\ UNCHANGED raised
           ELSE LET first == CHOOSE k \in bad : \A j \in bad : k <= j
                IN  /\ ops' = ops \o [k \in 1..first |-> conv_call(k)]
                    /\ Raise("BackendError")
                    /\ UNCHANGED convolved
  /\ UNCHANGED <<inputs, x, weights, kernel_shape, strides, dilations, pads, pad_mode,
                 group, xs, weight_groups, output>>

\* tf.concat along one axis of the group results.
tf_concat(ts, axis) ==
  LET ax == SplitAxis(ts[1], axis)
      RECURSIVE Sum(_)
      Sum(k) == IF k = 0 THEN 0 ELSE Sum(k - 1) + ts[k].shape[ax]
  IN  Tensor(ts[1].fmt,
             [i \in 1..Len(ts[1].shape) |-> IF i = ax THEN Sum(Len(ts)) ELSE ts[1].shape[i]],
             0)

\* Lines 297-317.
Reassemble ==
  /\ pc = "reassemble"
  /\ LET axis == IF support_cuda THEN 1 ELSE -1
     IN  /\ ops' = ops
                   \o <<Call("concat", "output", [k \in 1..Len(convolved) |-> convolved[k].id],
                             <<axis>>, "", 0, 0)>>
                   \o finish_calls(node.inputs # 2, support_cuda)
         /\ output' = finish_tensor(tf_concat(convolved, axis), support_cuda)
  /\ pc' = "returned"
  /\ UNCHANGED <<inputs, x, weights, kernel_shape, strides, dilations, pads, pad_mode,
                 group, xs, weight_groups, convolved, raised>>

----------------------------------------------------------------------------
\* The transposed convolution of one group slice (lines 136-272).

x_spatial_shape ==
  [i \in 1..Len(spatial_format) |-> At(x_shape, find(storage_format, spatial_format[i]))]
weights_shape == weights.shape

\* Lines 152-153, 231 and 236: the size of one spatial axis of the result.
notset_out_dim(s, in, k, d) == s * in - s + (k - 1) * d + 1
valid_out_dim_no_minus_one(s, in, k) == s * in + k
valid_out_dim(s, in, k) == s * (in - 1) + k
same_out_dim(s, in) == s * in

\* Lines 157-160: the spatial sizes when output_shape is given.
explicit_out_dims(output_shape, p) ==
  [i \in 1..Len(LastTwo(output_shape)) |->
     LastTwo(output_shape)[i] + p[i] + p[spatial_size + i]]

\* Lines 146-161 and 229-239: the shape argument before the batch substitution.
conv_output_shape(mode, attrs) ==
  LET batch == <<At(x_shape, find(storage_format, "N"))>>
      sp == IF mode = "NOTSET"
              THEN IF "output_shape" \notin DOMAIN attrs
                     THEN [i \in 1..spatial_size |->
                             notset_out_dim(strides[i], x_spatial_shape[i],
                                            kernel_shape[i], dilations[i])]
                     ELSE explicit_out_dims(attrs["output_shape"], pads)
            ELSE IF mode = "VALID"
              THEN [i \in 1..spatial_size |->
                      valid_out_dim(strides[i], x_spatial_shape[i], weights_shape[i])]
            ELSE [i \in 1..spatial_size |-> same_out_dim(strides[i], x_spatial_shape[i])]
  IN  insert(batch \o sp, compute_c_idx, Neg(weights_shape, 2))

\* Lines 163-165: the runtime batch size in place of the unknown one.
handle_dynamic_batch_size(shape, batch_idx) ==
  [shape EXCEPT ![batch_idx + 1] = RuntimeBatch]
dynamic_calls(k) ==
  <<Call("shape", "x", <<>>, <<>>, "", k, 0), Call("stack", "shape", <<>>, <<>>, "", k, 0)>>

\* The static shape of a tensor built from a shape argument.
static_shape(arg) == [i \in 1..Len(arg) |-> IF arg[i] = RuntimeBatch THEN None ELSE arg[i]]

\* Lines 174-188 and 248-262.
has_conv_func(n) == n \in {1, 2, 3}
strides_full(st) == IF Len(st) = 1 THEN <<st[1]>> ELSE insert(<<1>> \o st, compute_c_idx, 1)

\* conv1d/2d/3d_transpose: the shape argument has one entry per axis, the
\* input depth is the filter's last axis and the output depth the one before.
tf_conv_transpose_ok(t, w, shape_arg, data_format) ==
  /\ Len(shape_arg) = Len(t.shape)
  /\ At(t.shape, find(data_format, "C")) = Neg(w.shape, 1)
  /\ At(shape_arg, find(data_format, "C")) = Neg(w.shape, 2)

\* Line 200: when output_padding is applied.
applies_output_padding(attrs) ==
  "output_padding" \in DOMAIN attrs /\ "output_shape" \notin DOMAIN attrs

\* Lines 201-202.
output_padding_paddings(op) ==
  insert(<<<<0, 0>>>> \o [i \in 1..Len(op) |-> <<0, op[i]>>], compute_c_idx, <<0, 0>>)

\* Lines 207-213: the crop that removes pads.
crop_begin(p) == insert(<<0>> \o SubSeq(p, 1, spatial_size), compute_c_idx, 0)
crop_size_begin_only(shape, p) ==
  [j \in 1..Len(shape) |->
     IF compute_format[j] \in {"N", "C"} THEN shape[j]
     ELSE shape[j] - At(p, find(spatial_format, compute_format[j]))]
crop_size(shape, p) ==
  [j \in 1..Len(shape) |->
     IF compute_format[j] \in {"N", "C"} THEN shape[j]
     ELSE shape[j] - At(p, find(spatial_format, compute_format[j]))
                   - At(p, find(spatial_format, compute_format[j]) + spatial_size)]

Result(calls, exc, rs) == [calls |-> calls, exc |-> exc, rs |-> rs]

\* Lines 141-222: one iteration with pad_mode NOTSET.
notset_iteration(xk, wk) ==
  LET cos1 == conv_output_shape("NOTSET", node.attrs)
      dyn == At(cos1, find(storage_format, "N")) = None
      cos == IF dyn THEN handle_dynamic_batch_size(cos1, find(storage_format, "N")) ELSE cos1
      calls1 == IF dyn THEN dynamic_calls(xk.id) ELSE <<>>
      conv_call == Call("conv_transpose", "x", cos, strides_full(strides), "VALID", xk.id, wk.id)
  IN  IF ~has_conv_func(spatial_size)
        THEN Result(calls1, "NotImplementedError", NoTensor)
      ELSE IF ~tf_conv_transpose_ok(xk, wk, cos, compute_format)
        THEN Result(Append(calls1, conv_call), "BackendError", NoTensor)
      ELSE
        LET rs0 == Tensor(compute_format, static_shape(cos), xk.id)
            opp == output_padding_paddings(node.attrs["output_padding"])
            padded == IF applies_output_padding(node.attrs) THEN tf_pad(rs0, opp) ELSE rs0
            calls2 == IF applies_output_padding(node.attrs)
                        THEN <<Call("pad", "conv_rs", opp, rs0.fmt, "", xk.id, 0)>> ELSE <<>>
            size1 == crop_size(padded.shape, pads)
            dyn2 == At(size1, find(compute_format, "N")) = None
            size == IF dyn2
                      THEN handle_dynamic_batch_size(size1, find(compute_format, "N"))
                      ELSE size1
            calls3 == IF dyn2 THEN dynamic_calls(xk.id) ELSE <<>>
            slice_call == Call("slice", "conv_rs", crop_begin(pads), size, "", xk.id, 0)
        IN  Result(calls1 \o <<conv_call>> \o calls2 \o calls3 \o <<slice_call>>, "",
                   Tensor(compute_format, static_shape(size), xk.id))

\* Lines 229-272: one iteration with pad_mode VALID or SAME.  The helper
\* handle_dynamic_batch_size is a local bound only by the NOTSET branch.
auto_iteration(xk, wk) ==
  LET cos1 == conv_output_shape(pad_mode, node.attrs)
      dyn == At(cos1, find(storage_format, "N")) = None
      conv_call == Call("conv_transpose", "x", cos1, strides_full(strides), pad_mode, xk.id, wk.id)
  IN  IF dyn
        THEN Result(<<>>, "UnboundLocalError", NoTensor)
      ELSE IF ~has_conv_func(spatial_size)
        THEN Result(<<>>, "NotImplementedError", NoTensor)
      ELSE IF ~tf_conv_transpose_ok(xk, wk, cos1, compute_format)
        THEN Result(<<conv_call>>, "BackendError", NoTensor)
      ELSE Result(<<conv_call>>, "", Tensor(compute_format, static_shape(cos1), xk.id))

\* Lines 136-138.
CheckDilation ==
  /\ pc = "dilation"
  /\ IF dilations # Ones(spatial_size)
       THEN Raise("RuntimeError")
       ELSE /\ pc' = "loop"
            /\ UNCHANGED raised
  /\ UNCHANGED <<inputs, x, weights, kernel_shape, strides, dilations, pads, pad_mode,
                 group, xs, weight_groups, convolved, output, ops>>

Iterate(r, xk) ==
  /\ ops' = ops \o r.calls
  /\ x' = xk
  /\ IF r.exc = ""
       THEN /\ convolved' = Append(convolved, r.rs)
            /\ pc' = IF Len(convolved) + 1 = Len(Zip(xs, weight_groups))
                       THEN "reassemble" ELSE "loop"
            /\ UNCHANGED raised
       ELSE /\ Raise(r.exc)
            /\ UNCHANGED convolved
  /\ UNCHANGED <<inputs, weights, kernel_shape, strides, dilations, pads, pad_mode,
                 group, xs, weight_groups, output>>

\* Lines 140-222.
ConvTransposeNotSet ==
  /\ pc = "loop"
  /\ pad_mode = "NOTSET"
  /\ LET pair == Zip(xs, weight_groups)[Len(convolved) + 1]
     IN  Iterate(notset_iteration(pair[1], pair[2]), pair[1])

\* Lines 140-148 and 223-272.
ConvTransposeAuto ==
  /\ pc = "loop"
  /\ pad_mode # "NOTSET"
  /\ LET pair == Zip(xs, weight_groups)[Len(convolved) + 1]
     IN  Iterate(auto_iteration(pair[1], pair[2]), pair[1])

Next ==
  \/ ResolveKernelShape
  \/ TransposeWeights
  \/ DerivePadMode
  \/ FastPathPad
  \/ FastPathConv
  \/ FastPathReturn
  \/ Partition
  \/ CheckDilation
  \/ ConvTransposeNotSet
  \/ ConvTransposeAuto
  \/ GroupedPad
  \/ GroupedConv
  \/ Reassemble

Spec == Init /\ [][Next]_vars

----------------------------------------------------------------------------
\* What the claims are stated over.

Done == pc \in {"returned", "raised"}
AutoPadIs(v) == "auto_pad" \in DOMAIN node.attrs /\ node.attrs["auto_pad"] = v
AutoPadNotSet == "auto_pad" \notin DOMAIN node.attrs \/ node.attrs["auto_pad"] = "NOTSET"
KernelShapeDiffers ==
  /\ "kernel_shape" \in DOMAIN node.attrs
  /\ node.attrs["kernel_shape"] # From(input_dict.w.shape, 2)
Rank == Len(input_dict.x.shape) - 2
StridesAttr == Get(node.attrs, "strides", Ones(Rank))
PadsAttr == Get(node.attrs, "pads", Zeros(2 * Rank))
UnitDilations == Get(node.attrs, "dilations", Ones(Rank)) = Ones(Rank)
GroupAttr == Get(node.attrs, "group", 1)
Calls(names) == {i \in 1..Len(ops) : ops[i].op \in names}
\* The position (1-based) of spatial axis j, of the batch and of the channel
\* axis in the layout the primitives compute in.
SpAxis(j) == find(compute_format, sp_dims(Rank)[j]) + 1
NAxis == find(compute_format, "N") + 1
CAxis == find(compute_format, "C") + 1

\* C1 as stated: every call with transpose and auto_pad = SAME_LOWER ends by
\* raising the unsupported-operator condition, whatever the other attributes.
C1_AlwaysUnsupported ==
  (transpose /\ AutoPadIs("SAME_LOWER") /\ Done) => raised = "OP_UNSUPPORTED"

\* C1 amended: a call with transpose and auto_pad = SAME_LOWER never gets past
\* the padding-mode derivation; it ends with the unsupported-operator condition
\* when kernel_shape is absent or matches the weight, and with the shape
\* mismatch when kernel_shape differs from the weight.
C1_UnsupportedUnlessMismatch ==
  (transpose /\ AutoPadIs("SAME_LOWER")) =>
    /\ pc \in {"start", "weights", "pad_mode", "raised"}
    /\ pc = "raised" =>
         raised = IF KernelShapeDiffers THEN "AssertionError" ELSE "OP_UNSUPPORTED"

C1_Witness ==
  /\ transpose /\ AutoPadIs("SAME_LOWER")
  /\ raised = "OP_UNSUPPORTED"
  /\ GroupAttr = 2
  /\ "output_shape" \in DOMAIN node.attrs
  /\ "kernel_shape" \in DOMAIN node.attrs
  /\ ~UnitDilations

\* C2: a kernel_shape attribute that differs from the weight's trailing
\* dimensions ends the call with the shape mismatch, and no backend call has
\* been made when it is raised.
C2_ShapeMismatchFirst ==
  /\ KernelShapeDiffers =>
       /\ pc \in {"start", "raised"}
       /\ pc = "raised" => raised = "AssertionError"
  /\ raised = "AssertionError" => KernelShapeDiffers /\ ops = <<>>

C2_Witness == KernelShapeDiffers /\ raised = "AssertionError" /\ ops = <<>>

\* C3 as stated: when the call ends with the invalid auto_pad, the unsupported
\* operator, the non-unit dilation or the unimplemented rank condition, no
\* backend call has been made.
C3_NoCallBeforeCondition ==
  raised \in {"ValueError", "OP_UNSUPPORTED", "RuntimeError", "NotImplementedError"}
    => ops = <<>>

\* C4 as stated: a transposed convolution of spatial rank 1 to 3 with unit
\* dilation and an unknown batch dimension completes without error in the
\* modes NOTSET, VALID and SAME_UPPER, and every shape argument carries the
\* runtime batch size at the batch axis and static integers elsewhere.
C4_DynamicBatchCompletes ==
  (/\ transpose /\ Rank \in 1..3 /\ UnitDilations /\ ~KernelShapeDiffers
   /\ input_dict.x.shape[1] = None
   /\ AutoPadNotSet \/ AutoPadIs("VALID") \/ AutoPadIs("SAME_UPPER")
   /\ Done)
  => /\ raised = ""
     /\ \A i \in Calls({"conv_transpose"}) :
          \A j \in 1..Len(ops[i].a) :
            IF j = NAxis THEN ops[i].a[j] = RuntimeBatch ELSE ops[i].a[j] >= 0

\* C5 as stated: on every successful translation the input is transposed to
\* the compute layout iff the result is transposed back, and that happens iff
\* the two layouts differ; the returned tensor is in storage layout.
C5_SymmetricLayout ==
  pc = "returned" =>
    LET tin == \E i \in Calls({"transpose"}) : ops[i].on = "x"
        tout == \E i \in Calls({"transpose"}) : ops[i].on = "output"
    IN  /\ tin <=> tout
        /\ tout <=> (compute_format # storage_format)
        /\ output.fmt = storage_format

\* C6: with transpose and auto_pad = VALID every shape argument given to the
\* transposed-convolution primitive has strides[i] * (input[i] - 1) + kernel[i]
\* at spatial axis i, with SAME_UPPER it has strides[i] * input[i]; pads,
\* output_shape and output_padding play no part, and no pad or slice is made.
C6_AutoPadOutputShape ==
  (transpose /\ (AutoPadIs("VALID") \/ AutoPadIs("SAME_UPPER"))) =>
    /\ Calls({"pad", "slice"}) = {}
    /\ \A i \in Calls({"conv_transpose"}) :
         /\ Len(ops[i].a) = Rank + 2
         /\ \A j \in 1..Rank :
              ops[i].a[SpAxis(j)] =
                IF AutoPadIs("VALID")
                  THEN StridesAttr[j] * (input_dict.x.shape[2 + j] - 1)
                       + input_dict.w.shape[2 + j]
                  ELSE StridesAttr[j] * input_dict.x.shape[2 + j]

C6_Witness ==
  /\ pc = "returned" /\ transpose /\ AutoPadIs("VALID")
  /\ GroupAttr = 2 /\ Rank = 3
  /\ StridesAttr # Ones(Rank)
  /\ "pads" \in DOMAIN node.attrs
  /\ "output_shape" \in DOMAIN node.attrs
  /\ "output_padding" \in DOMAIN node.attrs
  /\ Cardinality(Calls({"conv_transpose"})) = 2

\* C7 as stated: a non-transposed convolution with auto_pad = SAME_LOWER of
\* spatial rank 1 to 3 makes no pad and convolves with SAME when all strides
\* are 1; otherwise every pad is one unit before and after on every spatial
\* axis and none on batch or channel, and it convolves with VALID.
C7_SameLowerEmulation ==
  (~transpose /\ AutoPadIs("SAME_LOWER") /\ Rank \in 1..3) =>
    IF StridesAttr = Ones(Rank)
      THEN /\ Calls({"pad"}) = {}
           /\ \A i \in Calls({"convolution"}) : ops[i].m = "SAME"
      ELSE /\ \A i \in Calls({"pad"}) :
                /\ Len(ops[i].a) = Len(ops[i].b)
                /\ \A j \in 1..Len(ops[i].b) :
                     ops[i].a[j] = IF ops[i].b[j] \in {"N", "C"} THEN <<0, 0>> ELSE <<1, 1>>
           /\ \A i \in Calls({"convolution"}) :
                /\ ops[i].m = "VALID"
                /\ \E p \in Calls({"pad"}) : p < i /\ ops[p].k = ops[i].k

\* C8 as stated: in mode NOTSET with an output_shape attribute, for spatial
\* rank 1 to 3, the shape argument of the transposed convolution has rank + 2
\* entries and output_shape[i] + pads[i] + pads[rank + i] at spatial axis i.
C8_ExplicitOutputShape ==
  (transpose /\ AutoPadNotSet /\ "output_shape" \in DOMAIN node.attrs /\ Rank \in 1..3) =>
    \A i \in Calls({"conv_transpose"}) :
      /\ Len(ops[i].a) = Rank + 2
      /\ \A j \in 1..Rank :
           ops[i].a[SpAxis(j)] =
             node.attrs["output_shape"][j] + PadsAttr[j] + PadsAttr[Rank + j]

\* The transposed-convolution call whose result slice call i crops.
Primitive(i) ==
  CHOOSE c \in Calls({"conv_transpose"}) :
    /\ c < i
    /\ \A d \in Calls({"conv_transpose"}) : d < i => d <= c

\* The calls after the primitive, given when output_padding is to be applied:
\* the trailing pad is made exactly then, and the slice starts pads[i] into
\* spatial axis i and keeps primitive + output_padding[i] - pads[i] -
\* pads[rank + i] of it, with the batch and channel axes whole.
CropAfterPrimitive(applied) ==
  (transpose /\ AutoPadNotSet) =>
    \A i \in Calls({"slice"}) :
      LET c == Primitive(i)
          padcalls == {q \in Calls({"pad"}) : c < q /\ q < i}
          op(j) == IF applied THEN node.attrs["output_padding"][j] ELSE 0
      IN  /\ applied <=> padcalls # {}
          /\ \A q \in padcalls :
               /\ ops[q].a[NAxis] = <<0, 0>> /\ ops[q].a[CAxis] = <<0, 0>>
               /\ \A j \in 1..Rank : ops[q].a[SpAxis(j)] = <<0, op(j)>>
          /\ ops[i].a[NAxis] = 0 /\ ops[i].a[CAxis] = 0
          /\ ops[i].b[NAxis] = ops[c].a[NAxis] /\ ops[i].b[CAxis] = ops[c].a[CAxis]
          /\ \A j \in 1..Rank :
               /\ ops[i].a[SpAxis(j)] = PadsAttr[j]
               /\ ops[i].b[SpAxis(j)] =
                    ops[c].a[SpAxis(j)] + op(j) - PadsAttr[j] - PadsAttr[Rank + j]

C10_GroupPartition ==
  pc = "returned" =>
    LET convs == Calls({"convolution", "conv_transpose"})
        Nth(k) == CHOOSE i \in convs : Cardinality({c \in convs : c <= i}) = k
    IN  IF GroupAttr = 1 /\ ~transpose
          THEN /\ Cardinality(convs) = 1
               /\ Calls({"split", "concat"}) = {}
          ELSE /\ Cardinality({i \in Calls({"split"}) : ops[i].on = "weights"}) = 1
               /\ Cardinality({i \in Calls({"split"}) : ops[i].on = "x"}) = 1
               /\ \A i \in Calls({"split"}) : ops[i].a[1] = GroupAttr
               /\ Cardinality(convs) = GroupAttr
               /\ \A k \in 1..GroupAttr :
                    /\ ops[Nth(k)].k = k /\ ops[Nth(k)].wk = k
                    /\ ops[Nth(k)].op = IF transpose THEN "conv_transpose" ELSE "convolution"
               /\ Cardinality(Calls({"concat"})) = 1
               /\ \A i \in Calls({"concat"}) :
                    /\ ops[i].a = [k \in 1..GroupAttr |-> k]
                    /\ (IF ops[i].b[1] < 0 THEN Rank + 2 + ops[i].b[1] ELSE ops[i].b[1]) + 1
                         = CAxis
                    /\ \A c \in convs : c < i

C10_Witness ==
  /\ pc = "returned" /\ GroupAttr = 2 /\ transpose /\ ~support_cuda
  /\ node.inputs = 3
  /\ Cardinality(Calls({"conv_transpose"})) = 2

====
